---- MODULE Spec2Model ----
(***************************************************************************)
(* The Newsroom: the chapter writer (src/app.py background_writer_task),   *)
(* the deployment drain check (src/check_jobs.py check_active_jobs), the   *)
(* cartographer (src/app.py run_cartographer_task) and the interval        *)
(* consistency rule of the timeline.                                       *)
(*                                                                         *)
(* Text is modelled as a sequence of pieces: the chapter heading, one      *)
(* "## title" section or one "[Error writing section: title]" placeholder  *)
(* per scene, or the blueprint outline a Draft chapter is created with.    *)
(***************************************************************************)
EXTENDS Integers, Sequences, FiniteSets, TLC

\* ---------------------------------------------------------------- bounds
\* Longest list of scene titles the planning call returns in the model.
MaxPlanLen == 2

\* Most rows the characters table and the timeline table hold in the model, and
\* the longest list of existing assignments handed to the checker.
MaxRows == 2

\* ------------------------------------------------------------- universes
Chapters == {1, 2}
Runs == {1, 2}
\* Scene titles a planning call can return (a title may repeat in a list; the
\* three titles of the fallback outline are distinct).
Titles == {"A"}
\* Outcome of one synthesizer call: text parsed, or any exception.
SynthOutcomes == {"ok", "fail"}

\* Entity names, places and days (dates) of the timeline.
Entities == {"Napoleon", "Josephine"}
Places == {"Paris", "Milan"}
Unknown == "Unknown"
Days == 1..2

\* ------------------------------------------------------------------ text
NoContent == <<>>
Outline == << <<"outline">> >>
Header == <<"#">>
Section(t) == <<"##", t>>
Placeholder(t) == <<"[Error writing section]", t>>

\* The value subtopics holds when the planning output cannot be iterated.
NotIterable == "not-iterable"
Fallback == <<"Introduction", "Main Event", "Conclusion">>

RECURSIVE SeqsUpTo(_, _)
SeqsUpTo(S, n) ==
    IF n = 0 THEN {<<>>}
    ELSE LET shorter == SeqsUpTo(S, n - 1)
         IN  shorter \cup {Append(s, x) : s \in shorter, x \in S}

TitleLists == SeqsUpTo(Titles, MaxPlanLen)

\* What json.loads(plan_res.text) can be: a list of titles, a string (iterated
\* character by character), a number/null/boolean, a dict with or without the
\* "subtopics" key, an empty dict; or the call or the parse raises.
PlainValues ==
    {[kind |-> "list", items |-> l] : l \in TitleLists}
    \cup {[kind |-> "str", items |-> l] : l \in TitleLists}
    \cup {[kind |-> "scalar"]}
PlanOutputs ==
    PlainValues
    \cup {[kind |-> "dict", sub |-> v] : v \in PlainValues}
    \cup {[kind |-> "dict_first", first |-> v] : v \in PlainValues}
    \cup {[kind |-> "dict_empty"], [kind |-> "raise"]}

VARIABLES
    chapters,        \* book_chapters rows: id -> [status, content]
    pc,              \* position of each background_writer_task run
    chap,            \* chapter_id argument of each run (0: not started)
    subtopics,       \* the run's local subtopics, as the for loop iterates it
    full_narrative,  \* the run's local full_narrative
    chapter_summary, \* the run's local chapter_summary, read at its fetch
    goal,            \* the content each chapter was created with
    previous_summary,\* the run's local previous_summary
    write_prompt,    \* the run's last write_prompt: its scene and its summary
    ended,           \* the status each run found at its start, how it ended
                     \* and the row it left behind
    drain,           \* last check_active_jobs: what it saw and its exit status
    book,            \* whether the books row of the chapters exists
    characters,      \* characters rows, in insertion order: the names
    timeline,        \* timeline rows, in insertion order
    carto,           \* the last run_cartographer_task: failure, inserts lost,
                     \* whether its book existed, return
    checked          \* last call of the consistency checker: inputs and verdict

prompts == <<previous_summary, write_prompt>>
goals == <<chapter_summary, goal>>
writer == <<chapters, pc, chap, subtopics, full_narrative, prompts, goals, ended, drain>>
mapping == <<book, characters, timeline, carto, checked>>
vars == <<writer, mapping>>

\* ----------------------------------------------------------------- store
\* What a read of a chapter id finds once its row is deleted.
NoRow == [status |-> "(no row)", content |-> NoContent]

\* An update that puts the row back when it is gone.
update_chapter_status_upsert(ch, id, status, content, ok) ==
    IF ~ok THEN ch
    ELSE IF content # NoContent
         THEN [ch EXCEPT ![id] = [status |-> status, content |-> content]]
         ELSE [ch EXCEPT ![id].status = status]

\* An update that appends the content to what the row holds.
update_chapter_status_append(ch, id, status, content, ok) ==
    IF ~ok THEN ch
    ELSE [ch EXCEPT ![id] = [status |-> status, content |-> ch[id].content \o content]]

\* update_chapter_status: one UPDATE ... WHERE id in its own transaction; it
\* matches nothing when the row is gone, and any exception (store unreachable:
\* ok = FALSE) is printed and swallowed.
update_chapter_status(ch, id, status, content, ok) ==
    IF ~ok \/ ch[id] = NoRow THEN ch
    ELSE IF content # NoContent
         THEN [ch EXCEPT ![id] = [status |-> status, content |-> content]]
         ELSE [ch EXCEPT ![id].status = status]

Init ==
    /\ \E c0 \in {NoContent, Outline} :
          /\ chapters = [c \in Chapters |-> [status |-> "Draft", content |-> c0]]
          /\ goal = [c \in Chapters |-> c0]
    /\ chapter_summary = [r \in Runs |-> NoContent]
    /\ pc = [r \in Runs |-> "idle"]
    /\ chap = [r \in Runs |-> 0]
    /\ subtopics = [r \in Runs |-> <<>>]
    /\ full_narrative = [r \in Runs |-> NoContent]
    /\ previous_summary = [r \in Runs |-> NoContent]
    /\ write_prompt = [r \in Runs |-> [scene |-> 0, previous_summary |-> NoContent]]
    /\ ended = [r \in Runs |-> [how |-> "idle"]]
    /\ drain = [exit |-> -1]
    /\ book = TRUE
    /\ characters = <<>>
    /\ timeline = <<>>
    /\ carto = [failed |-> FALSE, partial |-> FALSE, book |-> TRUE, ret |-> <<>>]
    /\ checked = [verdict |-> "none"]

\* ---------------------------------------------------------------- writer
\* A run is alive from its first statement to its last store write.
Active(r) == pc[r] \notin {"idle", "done"}

\* Lines 332-342: the sequence the for loop of line 348 iterates over.
IterOf(v) == IF v.kind \in {"list", "str"} THEN v.items ELSE NotIterable

PlanSubtopics(out) ==
    CASE out.kind = "raise" -> Fallback
      [] out.kind = "dict_empty" -> Fallback
      [] out.kind = "dict" -> IterOf(out.sub)
      [] out.kind = "dict_first" -> IterOf(out.first)
      [] OTHER -> IterOf(out)

\* A failed scene's placeholder put at the head of the chapter instead of at
\* the scene's position.
SceneTextMisplaced(narr, t, res) ==
    IF res = "ok" THEN Append(narr, Section(t))
    ELSE <<narr[1], Placeholder(t)>> \o Tail(narr)

\* Lines 373-392: what one scene adds to full_narrative.
SceneText(narr, t, res) ==
    IF res = "ok" THEN Append(narr, Section(t)) ELSE Append(narr, Placeholder(t))

\* A scene failure that escapes to the outer handler.
AfterSceneAbort(res) == IF res = "fail" THEN "handler" ELSE "loop"

\* Lines 390-392: where the run goes after a scene (the inner except only logs).
AfterScene(res) == "loop"

\* A final save that leaves the chapter Processing.
FinalStatusProcessing == "Processing"

\* Line 395: the status of the final save.
FinalStatus == "Completed"

\* Line 346: the continuity text of the first scene.
Opening == <<"The chapter begins.">>
\* Line 383: the "summary" value of the synthesizer's answer for scene k.
Summary(k) == <<"summary", k>>

\* A failed scene that puts the continuity text back to the opening text.
NextSummaryReset(prev, k, res) == IF res = "ok" THEN Summary(k) ELSE Opening

\* Lines 374-392: previous_summary after scene k; every statement that can
\* raise comes before the assignment of line 387.
NextSummary(prev, k, res) == IF res = "ok" THEN Summary(k) ELSE prev

\* Scenes of the outline iterated so far.
ScenesDone(r) == Len(full_narrative[r]) - 1

\* Line 266: the run's first statement marks the chapter Processing, whatever
\* its status is (no status is read first).  Runs and chapters are
\* interchangeable, so run 1 takes chapter 1 and run 2 starts after run 1.
StartRun(r, c, ok) ==
    /\ pc[r] = "idle"
    /\ r = 1 \/ pc[1] # "idle"
    /\ r = 1 => c = 1
    /\ chapters' = update_chapter_status(chapters, c, "Processing", NoContent, ok)
    /\ chap' = [chap EXCEPT ![r] = c]
    /\ pc' = [pc EXCEPT ![r] = "fetch"]
    /\ ended' = [ended EXCEPT ![r] = [how |-> "running", from |-> chapters[c].status]]
    /\ UNCHANGED <<subtopics, full_narrative, prompts, goals, drain, mapping>>

\* Lines 272-276: the goal of a run is the row's content column as it is now.
ReadGoal(row) == row.content

\* Lines 269-302: the reads of step 1 (a failed connection, or fetchone()
\* returning None for a row that is gone, raises into the outer handler) and
\* the research call (its exception is caught at 300).
FetchData(r, ok) ==
    /\ pc[r] = "fetch"
    /\ pc' = [pc EXCEPT ![r] =
                IF ok /\ chapters[chap[r]] # NoRow THEN "plan" ELSE "handler"]
    /\ chapter_summary' = [chapter_summary EXCEPT ![r] =
                IF ok /\ chapters[chap[r]] # NoRow
                THEN ReadGoal(chapters[chap[r]])
                ELSE chapter_summary[r]]
    /\ UNCHANGED <<chapters, chap, subtopics, full_narrative, prompts, goal, ended, drain, mapping>>

\* Lines 332-348: the planning call, the initial narrative, and the entry of
\* the for loop, which raises TypeError on a value that is not iterable.
PlanScenes(r, out) ==
    /\ pc[r] = "plan"
    /\ subtopics' = [subtopics EXCEPT ![r] = PlanSubtopics(out)]
    /\ full_narrative' = [full_narrative EXCEPT ![r] = <<Header>>]
    /\ previous_summary' = [previous_summary EXCEPT ![r] = Opening]
    /\ pc' = [pc EXCEPT ![r] =
                IF PlanSubtopics(out) = NotIterable THEN "handler" ELSE "loop"]
    /\ UNCHANGED <<chapters, chap, write_prompt, goals, ended, drain, mapping>>

\* Lines 348-392: one iteration of the loop.
WriteScene(r, res, ok) ==
    /\ pc[r] = "loop"
    /\ ScenesDone(r) < Len(subtopics[r])
    /\ LET t == subtopics[r][ScenesDone(r) + 1]
           narr == SceneText(full_narrative[r], t, res)
       IN  /\ write_prompt' = [write_prompt EXCEPT ![r] =
                  [scene |-> ScenesDone(r) + 1,
                   previous_summary |-> previous_summary[r]]]
           /\ previous_summary' = [previous_summary EXCEPT ![r] =
                  NextSummary(previous_summary[r], ScenesDone(r) + 1, res)]
           /\ full_narrative' = [full_narrative EXCEPT ![r] = narr]
           /\ chapters' = IF res = "ok"
                          THEN update_chapter_status(chapters, chap[r], "Processing", narr, ok)
                          ELSE chapters
    /\ pc' = [pc EXCEPT ![r] = AfterScene(res)]
    /\ UNCHANGED <<chap, subtopics, goals, ended, drain, mapping>>

\* Line 395: the final save, after the loop is exhausted.
FinalSave(r, ok) ==
    /\ pc[r] = "loop"
    /\ ScenesDone(r) = Len(subtopics[r])
    /\ chapters' = update_chapter_status(chapters, chap[r], FinalStatus, full_narrative[r], ok)
    /\ ended' = [ended EXCEPT ![r] = [how |-> "completed", from |-> ended[r].from, row |-> chapters'[chap[r]]]]
    /\ pc' = [pc EXCEPT ![r] = "done"]
    /\ UNCHANGED <<chap, subtopics, full_narrative, prompts, goals, drain, mapping>>

\* Lines 397-399: the outer handler.
CriticalError(r, ok) ==
    /\ pc[r] = "handler"
    /\ chapters' = update_chapter_status(chapters, chap[r], "Error", NoContent, ok)
    /\ ended' = [ended EXCEPT ![r] = [how |-> "error", from |-> ended[r].from, row |-> chapters'[chap[r]]]]
    /\ pc' = [pc EXCEPT ![r] = "done"]
    /\ UNCHANGED <<chap, subtopics, full_narrative, prompts, goals, drain, mapping>>

\* ----------------------------------------------------------- drain check
ProcessingCount(ch) == Cardinality({c \in Chapters : ch[c].status = "Processing"})

\* A check that lets the deployment proceed when the store cannot be queried.
ExitStatusFailOpen(up, active_count) ==
    IF ~up THEN 0 ELSE IF active_count > 0 THEN 1 ELSE 0

\* check_jobs.py 28-39: the exit status, given whether the query worked.
ExitStatus(up, active_count) ==
    IF ~up THEN 1 ELSE IF active_count > 0 THEN 1 ELSE 0

check_active_jobs(ok) ==
    /\ drain' = [exit |-> ExitStatus(ok, ProcessingCount(chapters)),
                 up |-> ok,
                 count |-> ProcessingCount(chapters)]
    /\ UNCHANGED <<chapters, pc, chap, subtopics, full_narrative, prompts, goals, ended, mapping>>

\* ------------------------------------------------------- specifications
\* Every step of the writer and the drain check; oks is the set of outcomes
\* a store round-trip can have (TRUE: it worked).
Step(oks) ==
    \/ \E r \in Runs, c \in Chapters, ok \in oks : StartRun(r, c, ok)
    \/ \E r \in Runs, ok \in oks : FetchData(r, ok)
    \/ \E r \in Runs, out \in PlanOutputs : PlanScenes(r, out)
    \/ \E r \in Runs, res \in SynthOutcomes, ok \in oks : WriteScene(r, res, ok)
    \/ \E r \in Runs, ok \in oks : FinalSave(r, ok)
    \/ \E r \in Runs, ok \in oks : CriticalError(r, ok)
    \/ \E ok \in oks : check_active_jobs(ok)

\* The store may fail at any round-trip.
Next == Step(BOOLEAN)
Spec == Init /\ [][Next]_vars

\* The store is available throughout.
NextStoreUp == Step({TRUE})
SpecStoreUp == Init /\ [][NextStoreUp]_vars

\* ---------------------------------------------------------- cartographer
\* One extracted timeline event, as inserted at lines 224-234.
Events ==
    [character_name : Entities, location : Places,
     start_date : Days, end_date : Days]
WellFormed(S) == {a \in S : a.start_date <= a.end_date}

\* What json.loads(response.text) can be at line 207: the two lists, or the
\* call or the parse raises; nc and ne bound the lengths of the lists.
Extractions(nc, ne) ==
    {[kind |-> "raise"]}
    \cup {[kind |-> "data", characters |-> cs, timeline |-> es] :
            cs \in SeqsUpTo(Entities, nc),
            es \in SeqsUpTo(WellFormed(Events), ne)}

\* The inserts of a run that stop at an exception lose to the rollback of
\* their transaction. Mutation of Committed: every insert is kept as it is made.
CommittedAutocommit(before, rows, done, failed) ==
    before \o SubSeq(rows, 1, done)

\* Lines 209-241: the inserts of a run go through one connection that is
\* committed once, at line 237, after the last insert; an exception before
\* that leaves through line 242 without a commit, so none of the done inserts
\* of rows is kept.
Committed(before, rows, done, failed) ==
    IF failed THEN before ELSE before \o rows

\* Where a run can fail: the provider call or the parse (no insert is made),
\* or the store after any number of the inserts; -1 is no failure.
Failures(data) ==
    IF data.kind = "raise" THEN {0}
    ELSE -1..(Len(data.characters) + Len(data.timeline))

\* Lines 187-244: every extracted character and event is inserted as it comes
\* (no existing row is read). at is the number of inserts made before a store
\* failure (0: the connection fails; all of them: the commit fails), -1 when
\* the store does not fail; the first insert for a book that is gone breaks
\* the foreign key of lines 70 and 80. Any exception returns 0, 0.
run_cartographer_task(data, at) ==
    /\ data.kind = "data" =>
          /\ Len(characters) + Len(data.characters) <= MaxRows
          /\ Len(timeline) + Len(data.timeline) <= MaxRows
    /\ at \in Failures(data)
    /\ LET orphan == ~book /\ data.kind = "data"
                         /\ Len(data.characters) + Len(data.timeline) > 0
           failed == at >= 0 \/ orphan
           made == IF orphan THEN 0 ELSE at
           cs == IF data.kind = "data" THEN data.characters ELSE <<>>
           es == IF data.kind = "data" THEN data.timeline ELSE <<>>
           chars_count == IF failed /\ made < Len(cs) THEN made ELSE Len(cs)
           events_count == IF failed THEN made - chars_count ELSE Len(es)
       IN  /\ characters' = Committed(characters, cs, chars_count, failed)
           /\ timeline' = Committed(timeline, es, events_count, failed)
           /\ carto' = [failed |-> failed,
                        partial |-> failed /\ made > 0,
                        book |-> book,
                        ret |-> IF failed THEN <<0, 0>>
                                ELSE <<chars_count, events_count>>]
    /\ UNCHANGED <<writer, book, checked>>

\* The lists drawn fit in the room the bounded tables have left.
NextTimeline ==
    \E data \in Extractions(MaxRows - Len(characters), MaxRows - Len(timeline)) :
      \E at \in Failures(data) :
        run_cartographer_task(data, at)
SpecTimeline == Init /\ [][NextTimeline]_vars

\* ------------------------------------------------------------- deletion
\* Rows per table of the specification with the deletion.
MaxExtract == 1

\* Lines 463-466 of main: DELETE FROM books, committed; the ON DELETE CASCADE
\* keys of lines 57, 70, 80 take the book's chapters, characters and timeline
\* rows with it. A DELETE that fails (line 471) changes nothing.
DeleteBook ==
    /\ book
    /\ book' = FALSE
    /\ chapters' = [c \in Chapters |-> NoRow]
    /\ characters' = <<>>
    /\ timeline' = <<>>
    /\ UNCHANGED <<pc, chap, subtopics, full_narrative, prompts, goals, ended, drain,
                   carto, checked>>

\* One pipeline run and the extraction runs, with the store answering, and the
\* deletion of their book at any point.
NextDelete ==
    \/ StartRun(1, 1, TRUE)
    \/ FetchData(1, TRUE)
    \/ \E out \in PlanOutputs : PlanScenes(1, out)
    \/ \E res \in SynthOutcomes : WriteScene(1, res, TRUE)
    \/ FinalSave(1, TRUE)
    \/ CriticalError(1, TRUE)
    \/ \E data \in Extractions(MaxExtract - Len(characters),
                                MaxExtract - Len(timeline)) :
          run_cartographer_task(data, -1)
    \/ DeleteBook
SpecDelete == Init /\ [][NextDelete]_vars

\* --------------------------------------------------- consistency checker
\* An assignment: entity E occupied place P during [start, end].
Assignments ==
    [entity : Entities, place : Places \cup {Unknown}, start : Days, end : Days]
ValidAssignments == {a \in Assignments : a.start <= a.end}

\* Derived, never supplied: exact iff a single dated event.
Granularity(a) == IF a.start = a.end THEN "exact" ELSE "approximate"

\* Closed-interval overlap.
Overlap(a, b) == a.start <= b.end /\ b.start <= a.end

\* A checker for which the Unknown place conflicts like any other place.
ConflictsWithNoWildcard(c, e) ==
    /\ e.entity = c.entity
    /\ e.place # c.place
    /\ Overlap(e, c)
    /\ Granularity(e) = "exact"
    /\ Granularity(c) = "exact"

\* Whether existing assignment e contradicts candidate c.
ConflictsWith(c, e) ==
    /\ e.entity = c.entity
    /\ e.place # c.place
    /\ e.place # Unknown
    /\ c.place # Unknown
    /\ Overlap(e, c)
    /\ Granularity(e) = "exact"
    /\ Granularity(c) = "exact"

\* check(candidate, existing): the existing assignments are scanned in order.
RECURSIVE check(_, _)
check(candidate, existing) ==
    IF existing = <<>> THEN "Accept"
    ELSE IF ConflictsWith(candidate, Head(existing)) THEN "Conflict"
    ELSE check(candidate, Tail(existing))

\* One call of the checker (a pure function: one call per behaviour).
CheckCall(candidate, existing) ==
    /\ checked.verdict = "none"
    /\ checked' = [candidate |-> candidate, existing |-> existing,
                   verdict |-> check(candidate, existing)]
    /\ UNCHANGED <<writer, book, characters, timeline, carto>>

NextCheck ==
    /\ checked.verdict = "none"
    /\ \E candidate \in ValidAssignments, existing \in SeqsUpTo(ValidAssignments, MaxRows) :
          CheckCall(candidate, existing)
SpecCheck == Init /\ [][NextCheck]_vars

\* ---------------------------------------------------------------- claims
IsPlaceholder(piece) == piece[1] = "[Error writing section]"
Planned(r) == full_narrative[r] # NoContent
Iterable(r) == subtopics[r] # NotIterable
\* Some scene of the run failed; the first one that did.
HasFailure(r) == \E i \in 2..Len(full_narrative[r]) : IsPlaceholder(full_narrative[r][i])
FirstFailure(r) ==
    CHOOSE k \in 1..ScenesDone(r) :
        /\ IsPlaceholder(full_narrative[r][k + 1])
        /\ \A j \in 1..(k - 1) : ~IsPlaceholder(full_narrative[r][j + 1])
\* No other run was ever started on the run's chapter.
Alone(r) == \A q \in Runs \ {r} : chap[q] # chap[r]

\* C1: the drain check exits 1 whenever the store holds a Processing chapter,
\* exits 0 exactly when the count it read is 0, and exits 1 when the store
\* cannot be queried.
C1_DrainFailClosed ==
    drain.exit # -1 =>
        /\ drain.exit \in {0, 1}
        /\ drain.count >= 1 => drain.exit = 1
        /\ ~drain.up => drain.exit = 1
        /\ drain.exit = 0 <=> (drain.up /\ drain.count = 0)
C1_Witness == drain.exit = 1 /\ drain.up /\ drain.count >= 1

\* C2: no two runs are alive on the same chapter at the same time.
C2_OneRunPerChapter ==
    \A r, q \in Runs : (r # q /\ Active(r) /\ Active(q)) => chap[r] # chap[q]

\* C3 as stated: a run with a failed scene k ends in Error, persisted content
\* being scenes 1..k-1 and the placeholder of k, and nothing after k produced.
C3_AbortsAtFailedScene ==
    \A r \in Runs : (pc[r] = "done" /\ HasFailure(r)) =>
        LET k == FirstFailure(r)
        IN  /\ ended[r].row.status = "Error"
            /\ ended[r].row.content = SubSeq(full_narrative[r], 1, k + 1)
            /\ ScenesDone(r) = k

\* C3 amended: a run with a first failed scene k never leaves the loop for the
\* handler; it ends Completed, persisted content being scenes 1..k-1 in full,
\* the placeholder of k, and one section or placeholder for each of k+1..n.
C3_ContinuesPastFailedScene ==
    \A r \in Runs : HasFailure(r) =>
        /\ pc[r] \in {"loop", "done"}
        /\ pc[r] = "done" =>
            LET k == FirstFailure(r)
                n == Len(subtopics[r])
                text == ended[r].row.content
            IN  /\ ended[r].how = "completed"
                /\ ended[r].row.status = "Completed"
                /\ Len(text) = n + 1
                /\ text[1] = Header
                /\ \A i \in 1..(k - 1) : text[i + 1] = Section(subtopics[r][i])
                /\ text[k + 1] = Placeholder(subtopics[r][k])
                /\ \A i \in (k + 1)..n :
                      text[i + 1] \in {Section(subtopics[r][i]), Placeholder(subtopics[r][i])}
C3_Witness ==
    /\ pc[1] = "done"
    /\ ended[1].row.content =
          <<Header, Section("Introduction"), Placeholder("Main Event"), Section("Conclusion")>>

\* C4: a run whose synthesizer calls all succeed ends with status Completed and
\* persisted content made of the heading and exactly one section per outline
\* scene, in outline order.
C4_AllScenesInOrder ==
    \A r \in Runs : (pc[r] = "done" /\ ended[r].how = "completed" /\ ~HasFailure(r)) =>
        /\ ended[r].row.status = "Completed"
        /\ ended[r].row.content =
              <<Header>> \o [i \in 1..Len(subtopics[r]) |-> Section(subtopics[r][i])]
C4_Witness ==
    /\ pc[1] = "done"
    /\ ended[1].row.status = "Completed"
    /\ ended[1].row.content =
          <<Header, Section("Introduction"), Section("Main Event"), Section("Conclusion")>>

\* C5: a failed scene leaves a placeholder at that scene's position and the
\* run goes on: every piece of the narrative is the section or the placeholder
\* of the outline scene at its position, a failure never sends the run to the
\* handler, and a run that ended attempted every scene of its outline.
C5_PlaceholderAndContinue ==
    \A r \in Runs : (Planned(r) /\ Iterable(r)) =>
        /\ ScenesDone(r) <= Len(subtopics[r])
        /\ \A i \in 1..ScenesDone(r) :
              full_narrative[r][i + 1] \in
                  {Section(subtopics[r][i]), Placeholder(subtopics[r][i])}
        /\ HasFailure(r) => (pc[r] # "handler" /\ ended[r].how # "error")
        /\ pc[r] = "done" => ScenesDone(r) = Len(subtopics[r])
C5_Witness ==
    \E r \in Runs :
        /\ pc[r] = "loop"
        /\ full_narrative[r] =
              <<Header, Placeholder("Introduction"), Section("Main Event")>>

\* C6: between scenes, the content persisted for the chapter is exactly the
\* narrative of the scenes finished so far, placeholders included.
C6_PersistedReflectsScenes ==
    \A r \in Runs : (pc[r] = "loop" /\ ScenesDone(r) >= 1 /\ Alone(r)) =>
        chapters[chap[r]].content = full_narrative[r]

\* C7: a run that ended in the outer handler left status Error and persisted
\* the content it had accumulated.
C7_ErrorPersistsContent ==
    \A r \in Runs : (ended[r].how = "error" /\ Planned(r)) =>
        /\ ended[r].row.status = "Error"
        /\ ended[r].row.content = full_narrative[r]

\* C10: the outline a run iterates over is a list of 3 to 15 scene titles and
\* planning never fails the job.
C10_OutlineWellFormed ==
    \A r \in Runs : Planned(r) =>
        /\ Iterable(r)
        /\ Len(subtopics[r]) \in 3..15
        /\ pc[r] # "handler"

\* Two stored rows that place one entity, on exact dates that overlap, at two
\* different places.
Contradict(a, b) ==
    /\ a.character_name = b.character_name
    /\ a.location # b.location
    /\ a.start_date = a.end_date
    /\ b.start_date = b.end_date
    /\ a.start_date <= b.end_date
    /\ b.start_date <= a.end_date

\* C8: the timeline never holds two exact assignments of one entity at
\* different places with overlapping intervals.
C8_NoContradictionStored ==
    \A i, j \in 1..Len(timeline) : ~Contradict(timeline[i], timeline[j])

\* C9 as stated: the verdict is Conflict iff some existing assignment has the
\* candidate's entity, another place, an overlapping interval, and both are
\* exact.
C9_ConflictIffExactOverlap ==
    checked.verdict # "none" =>
        (checked.verdict = "Conflict" <=>
            \E i \in 1..Len(checked.existing) :
                LET e == checked.existing[i]
                    c == checked.candidate
                IN  /\ e.entity = c.entity
                    /\ e.place # c.place
                    /\ e.start <= c.end /\ c.start <= e.end
                    /\ e.start = e.end
                    /\ c.start = c.end)

\* C9 amended: as stated, for two places neither of which is Unknown; the
\* verdict is Accept whenever the candidate or every such assignment is
\* approximate, and whenever the places are identical.
C9_ConflictIffExactOverlapKnownPlaces ==
    checked.verdict # "none" =>
        /\ checked.verdict \in {"Accept", "Conflict"}
        /\ checked.verdict = "Conflict" <=>
            \E i \in 1..Len(checked.existing) :
                LET e == checked.existing[i]
                    c == checked.candidate
                IN  /\ e.entity = c.entity
                    /\ e.place # c.place
                    /\ Unknown \notin {e.place, c.place}
                    /\ e.start <= c.end /\ c.start <= e.end
                    /\ e.start = e.end
                    /\ c.start = c.end
C9_Witness ==
    /\ checked.verdict = "Conflict"
    /\ checked.candidate = [entity |-> "Napoleon", place |-> "Milan", start |-> 1, end |-> 1]
    /\ checked.existing =
          <<[entity |-> "Napoleon", place |-> "Paris", start |-> 1, end |-> 1]>>

\* C11: a drain check made while some run is alive exits 1.
C11_UnsafeWhileRunInFlight ==
    [][(drain' # drain /\ \E r \in Runs : Active(r)) => drain'.exit = 1]_vars

\* The step in which run r checkpoints a scene it has just written.
Checkpoints(r) ==
    /\ pc[r] = "loop"
    /\ full_narrative'[r] # full_narrative[r]
    /\ chapters'[chap[r]] # chapters[chap[r]]

\* C12: a chapter in status Error can be started whenever a run is free, the
\* start marks it Processing, and every checkpoint of the retry leaves as
\* persisted content exactly the new run's narrative: the heading and the
\* pieces of the new run's own scenes.
C12_RetryFromScratch ==
    /\ [](\A r \in Runs, c \in Chapters :
            (pc[r] = "idle" /\ (r = 1 \/ pc[1] # "idle") /\ (r = 1 => c = 1)
             /\ chapters[c].status = "Error")
                => ENABLED StartRun(r, c, TRUE))
    /\ [][\A r \in Runs :
            /\ (pc[r] = "idle" /\ pc'[r] # "idle" /\ chapters[chap'[r]].status = "Error")
                  => chapters'[chap'[r]].status = "Processing"
            /\ (ended[r].how = "running" /\ ended[r].from = "Error" /\ Checkpoints(r))
                  => /\ chapters'[chap[r]].content = full_narrative'[r]
                     /\ full_narrative'[r][1] = Header
                     /\ \A i \in 1..(Len(full_narrative'[r]) - 1) :
                           full_narrative'[r][i + 1] \in
                               {Section(subtopics[r][i]), Placeholder(subtopics[r][i])}
       ]_vars
C12_Witness ==
    /\ ended[1].how = "error"
    /\ ended[1].row = [status |-> "Error", content |-> Outline]
    /\ ended[2].how = "running"
    /\ ended[2].from = "Error"
    /\ chap[2] = 1
    /\ chapters[1] = [status |-> "Processing", content |-> <<Header, Section("Introduction")>>]
    /\ full_narrative[2] = <<Header, Section("Introduction")>>

\* The step in which a start request is made for chapter c.
StartsOn(c) == \E r \in Runs : pc[r] = "idle" /\ pc'[r] # "idle" /\ chap'[r] = c

\* C13: the persisted status of a chapter changes only along Draft->Processing,
\* Processing->Completed, Processing->Error, Error->Processing and
\* Completed->Processing, the last two only in the step of a start request.
C13_StatusTransitions ==
    [][\A c \in Chapters :
          LET old == chapters[c].status
              new == chapters'[c].status
          IN  old # new =>
                /\ <<old, new>> \in
                      {<<"Draft", "Processing">>, <<"Processing", "Completed">>,
                       <<"Processing", "Error">>, <<"Error", "Processing">>,
                       <<"Completed", "Processing">>}
                /\ old \in {"Error", "Completed"} => StartsOn(c)
      ]_vars

IsPrefix(a, b) == Len(a) <= Len(b) /\ SubSeq(b, 1, Len(a)) = a

\* C14: while a chapter is Processing, every content value written to it
\* extends the content value it replaces.
C14_ContentGrows ==
    [][\A c \in Chapters :
          (chapters[c].status = "Processing" /\ chapters'[c].content # chapters[c].content)
              => IsPrefix(chapters[c].content, chapters'[c].content)
      ]_vars

\* The step in which run r issues a store write that the store does not take:
\* the Processing mark, a scene checkpoint, or the final save.
WriteLost(r) ==
    \/ /\ pc[r] = "idle" /\ pc'[r] # "idle"
       /\ chapters'[chap'[r]].status # "Processing"
    \/ /\ pc[r] = "loop" /\ pc'[r] # "done"
       /\ Len(full_narrative'[r]) > Len(full_narrative[r])
       /\ ~IsPlaceholder(full_narrative'[r][Len(full_narrative'[r])])
       /\ chapters'[chap[r]] # [status |-> "Processing", content |-> full_narrative'[r]]
    \/ /\ pc[r] = "loop" /\ pc'[r] = "done"
       /\ chapters'[chap[r]] # [status |-> FinalStatus, content |-> full_narrative[r]]

\* C15: a store write of a run that fails leaves the store as it was and ends
\* the run in failure: the run goes to its handler or ends reporting an error.
C15_FailedWriteIsFatal ==
    [][\A r \in Runs : WriteLost(r) =>
          /\ chapters' = chapters
          /\ pc'[r] = "handler" \/ ended'[r].how = "error"
      ]_vars

\* C16: a run of the cartographer either appends every extracted character and
\* every extracted event and returns their numbers, or fails, leaves both
\* tables as they were and returns 0, 0.
C16_AllOrNothing ==
    [][<<characters, timeline, carto>>' # <<characters, timeline, carto>> =>
          \/ /\ ~carto'.failed
             /\ IsPrefix(characters, characters') /\ IsPrefix(timeline, timeline')
             /\ carto'.ret = <<Len(characters') - Len(characters),
                               Len(timeline') - Len(timeline)>>
          \/ /\ carto'.failed
             /\ characters' = characters /\ timeline' = timeline
             /\ carto'.ret = <<0, 0>>
      ]_vars
C16_Witness ==
    /\ carto.failed /\ carto.partial
    /\ carto.ret = <<0, 0>>
    /\ characters # <<>> /\ timeline # <<>>

\* C17: the characters table never holds two rows with the same name.
C17_OneRowPerName ==
    \A i, j \in 1..Len(characters) : i # j => characters[i] # characters[j]

\* The summary of the last scene before scene k of run r that was written,
\* the opening text when there is none.
RECURSIVE LastSummary(_, _)
LastSummary(r, k) ==
    IF k = 1 THEN Opening
    ELSE IF IsPlaceholder(full_narrative[r][k]) THEN LastSummary(r, k - 1)
    ELSE Summary(k - 1)

\* C18: the synthesizer call of scene k is handed the summary of the last
\* scene before k that was written (the opening text when none was), which is
\* not the narrative so far, and the summary a run carries into its next scene is that
\* of its last written scene.
C18_RollingSummary ==
    \A r \in Runs :
        /\ write_prompt[r].scene > 0 =>
              write_prompt[r].previous_summary = LastSummary(r, write_prompt[r].scene)
        /\ pc[r] = "loop" => previous_summary[r] = LastSummary(r, ScenesDone(r) + 1)
C18_Witness ==
    /\ write_prompt[1].scene = 3
    /\ ~IsPlaceholder(full_narrative[1][2])
    /\ IsPlaceholder(full_narrative[1][3])
    /\ write_prompt[1].previous_summary = Summary(1)
    /\ previous_summary[1] = Summary(1)

\* C19: once the book is deleted, no chapter row, no characters row and no
\* timeline row of it exists, whatever the runs in flight do afterwards.
C19_DeletedStaysDeleted ==
    ~book => /\ \A c \in Chapters : chapters[c] = NoRow
             /\ characters = <<>>
             /\ timeline = <<>>
C19_Witness ==
    /\ ~book
    /\ ended[1].how = "completed" /\ ended[1].row = NoRow
    /\ ended[1].from = "Draft"
    /\ Len(full_narrative[1]) > 1
    /\ carto.failed /\ ~carto.book

\* C20: a chapter whose run has ended, and on which no other run is alive,
\* has status Completed or Error.
C20_TerminalStatusAfterRun ==
    \A r \in Runs :
        (pc[r] = "done" /\ \A q \in Runs : Active(q) => chap[q] # chap[r])
            => chapters[chap[r]].status \in {"Completed", "Error"}

\* C21: the goal read by a run that was started on a chapter an earlier run
\* had left Completed or Error is the content the chapter was created with.
C21_GoalAsCreated ==
    \A r \in Runs :
        (pc[r] \in {"plan", "loop"} /\ ended[r].from \in {"Completed", "Error"})
            => chapter_summary[r] = goal[chap[r]]

====
